---------------------------- MODULE Spec2Model ----------------------------
(***************************************************************************)
(* Model of the billing portal:                                            *)
(*   - the cable-subscription purchase handler (serve(async (req) => ...)) *)
(*     run by several concurrent invocations against the shared profiles   *)
(*     and transactions tables;                                            *)
(*   - the client-side AuthProvider (user, session, isLoading) driven by   *)
(*     auth events, session check, login, register, logout and profile     *)
(*     fetches, together with one mounted ProtectedRoute.                  *)
(* Spec is the purchase handler, AuthSpec the AuthProvider with the        *)
(* backend, RouteSpec a ProtectedRoute under the AuthProvider.             *)
(***************************************************************************)
EXTENDS Integers, Sequences, FiniteSets, Bags, TLC

(***************************************************************************)
(* Bounds                                                                  *)
(***************************************************************************)
\* backend calls and timers of the client that may be unresolved at once
MaxPending == 2
\* cap of the counter of automatic refreshSession() calls of one mount
MaxRefreshCalls == 2
\* number of purchase-handler invocations, named by order of arrival
NumInv == 2
\* starting balance of every profile row
InitBalance == 5
\* price of the cheaper and of the dearer catalog package
PriceSmall == 2
PriceLarge == 5

Invocations == 1..NumInv

\* a value for "no value" (null / undefined / not yet assigned)
None == "none"

(***************************************************************************)
(* Backend tables                                                          *)
(***************************************************************************)
\* users the auth service can verify a token for; u3 has no profile row
AuthUsers == {"u1", "u2", "u3"}
ProfileIds == {"u1", "u2"}

\* cable_packages rows (joined with cable_providers); amount is the price
cable_packages ==
    [p \in {"p1", "p2"} |-> [amount |-> IF p = "p1" THEN PriceSmall ELSE PriceLarge]]

InitProfiles ==
    [u \in ProfileIds |->
        [name    |-> "n0",
         role    |-> IF u = "u1" THEN "customer" ELSE "admin",
         balance |-> InitBalance]]

(***************************************************************************)
(* Requests the handler can receive.  auth is the Authorization header:    *)
(* None (no header), "bad" (a token getUser does not verify) or the id of  *)
(* the user the token verifies as.  body is "invalid" when req.json()      *)
(* throws; a field that is None is missing (falsy) in the parsed body.     *)
(***************************************************************************)
Req(m, a, b, pk, sc, ref) ==
    [method |-> m, auth |-> a, body |-> b,
     packageId |-> pk, smartCardNumber |-> sc, reference |-> ref]

Requests ==
    { Req("OPTIONS", None, "json", None, None, None),
      Req("POST", None, "json", "p1", "s1", "r1"),
      Req("POST", "bad", "json", "p1", "s1", "r1"),
      Req("POST", "u1", "invalid", None, None, None),
      Req("POST", "u1", "json", None, "s1", "r1"),
      Req("POST", "u1", "json", "p1", None, "r1"),
      Req("POST", "u1", "json", "p1", "s1", None),
      Req("POST", "u1", "json", "px", "s1", "r1"),
      Req("POST", "u3", "json", "p1", "s1", "r1"),
      Req("POST", "u1", "json", "p1", "s1", "r1"),
      Req("POST", "u1", "json", "p1", "s1", "r2"),
      Req("POST", "u1", "json", "p2", "s1", "r1"),
      Req("POST", "u2", "json", "p1", "s1", "r1"),
      \* a body that also carries fields the handler does not read
      Req("POST", "u1", "json", "p1", "s1", "r1") @@ [user_id |-> "u2"] }

NoReq == Req(None, None, None, None, None, None)

Resp(st, err, ok) == [status |-> st, error |-> err, success |-> ok]
NoResp == Resp(0, None, None)

VARIABLES
    \* ---- backend (shared) ----
    profiles,        \* profiles table: id -> [name, role, balance]
    transactions,    \* transactions table: a bag of rows
    \* ---- purchase handler, per invocation ----
    pc,              \* position of the invocation in the handler
    req,             \* the request it received
    authUser,        \* user.id returned by supabase.auth.getUser(token)
    packageData,     \* packageData.amount once the package was read
    profile,         \* <<profile.balance>> as read by this invocation, else <<>>
    response,        \* the Response it returned
    success,         \* outcome of the (mock) provider call
    calls,           \* log of the write calls (rpc, insert) it has made
    \* ---- AuthProvider state ----
    user,            \* useState<User | null>
    session,         \* useState<Session | null> (a session is its user's id)
    isLoading,       \* useState<boolean>
    isMounted,       \* the effect's isMounted flag (the provider wraps the
                     \* application and stays mounted for the life of the page)
    pending,         \* bag of backend calls and timers not yet resolved
    \* ---- ProtectedRoute state ----
    routeMounted,        \* a ProtectedRoute is mounted
    loadingTimeExceeded, \* useState(false)
    refreshAttempted,    \* useState(false)
    timeoutId,           \* seconds since the pending 3 s timer was set, or -1
    allowedRoles,        \* the allowedRoles prop of the mounted route
    autoRefreshCalls,    \* refreshSession() calls made by the mount's effect
    loadingFor           \* seconds isLoading has been true without a break

backendVars == <<profiles, transactions>>
handlerVars == <<pc, req, authUser, packageData, profile, response, success, calls>>
authVars    == <<user, session, isLoading, isMounted, pending>>
routeVars   == <<routeMounted, allowedRoles, loadingTimeExceeded, refreshAttempted,
                 timeoutId, autoRefreshCalls, loadingFor>>
vars == <<backendVars, handlerVars, authVars, routeVars>>

(***************************************************************************)
(* Purchase handler                                                        *)
(***************************************************************************)
\* the stored procedure add_to_balance(user_uuid, amount_to_add)
add_to_balance(tbl, user_uuid, amount_to_add) ==
    IF user_uuid \in DOMAIN tbl
    THEN [tbl EXCEPT ![user_uuid].balance = @ + amount_to_add]
    ELSE tbl

\* (mutant) an account named in the request body is believed
AccountFromBody(p) ==
    IF "user_id" \in DOMAIN req[p] THEN req[p].user_id ELSE authUser[p]

\* user.id: the account the rpc and the insert are made for
AccountOf(p) == authUser[p]

\* (mutant) the sign of the adjustment is lost
DebitAmountCredit(p) == packageData[p]

\* amount_to_add: -packageData.amount
DebitAmount(p) == 0 - packageData[p]

\* (mutant) the row is sent twice
InsertRowTwice(tbl, row) == tbl (+) SetToBag({row}) (+) SetToBag({row})

\* (mutant) a row whose user and reference are already present is dropped
InsertRowOncePerReference(tbl, row) ==
    IF \E r \in BagToSet(tbl) :
          r.user_id = row.user_id /\ r.reference = row.reference
    THEN tbl
    ELSE tbl (+) SetToBag({row})

\* supabase.from('transactions').insert(row), when it reports no error
InsertRow(tbl, row) == tbl (+) SetToBag({row})

\* the row the handler inserts into transactions
TxRow(p, st) ==
    [user_id   |-> AccountOf(p),
     type      |-> "cable",
     amount    |-> packageData[p],
     status    |-> st,
     reference |-> req[p].reference,
     recipient |-> req[p].smartCardNumber]

\* log entries of the two kinds of write call
RpcCall(p, err) ==
    [op |-> "add_to_balance", user |-> authUser[p],
     amount |-> DebitAmount(p), status |-> None,
     reference |-> None, err |-> err]
InsertCall(p, st, err) ==
    [op |-> "insert", user |-> authUser[p],
     amount |-> packageData[p], status |-> st,
     reference |-> req[p].reference, err |-> err]

\* return new Response(...): the invocation is over
Return(p, r) ==
    /\ pc' = [pc EXCEPT ![p] = "done"]
    /\ response' = [response EXCEPT ![p] = r]

Goto(p, label) ==
    /\ pc' = [pc EXCEPT ![p] = label]
    /\ UNCHANGED response

\* (mutant) the reference is not checked
MissingParametersNoReference(r) ==
    r.packageId = None \/ r.smartCardNumber = None

\* if (!packageId || !smartCardNumber || !reference)
MissingParameters(r) ==
    r.packageId = None \/ r.smartCardNumber = None \/ r.reference = None

\* (mutant) only an empty balance is refused
InsufficientBalanceOnlyEmpty(bal, amount) == bal <= 0

\* if (profile.balance < packageData.amount)
InsufficientBalance(bal, amount) == bal < amount

\* request arrives: OPTIONS preflight, Authorization header, then getUser is awaited
Receive(p, r) ==
    /\ pc[p] = "idle"
    /\ \A q \in Invocations : q < p => pc[q] # "idle"
    /\ req' = [req EXCEPT ![p] = r]
    /\ IF r.method = "OPTIONS"
       THEN Return(p, Resp(200, None, None))
       ELSE IF r.auth = None
       THEN Return(p, Resp(401, "No authorization header provided", None))
       ELSE Goto(p, "getUser")
    /\ UNCHANGED <<backendVars, authUser, packageData, profile, success, calls>>

\* supabase.auth.getUser(token) resolves; then req.json() is awaited
GetUser(p) ==
    /\ pc[p] = "getUser"
    /\ IF req[p].auth \notin AuthUsers
       THEN /\ Return(p, Resp(401, "Invalid token", None))
            /\ UNCHANGED authUser
       ELSE /\ authUser' = [authUser EXCEPT ![p] = req[p].auth]
            /\ Goto(p, "json")
    /\ UNCHANGED <<backendVars, req, packageData, profile, success, calls>>

\* req.json() resolves or throws (caught by the handler's catch);
\* then the package select is awaited
ParseBody(p) ==
    /\ pc[p] = "json"
    /\ IF req[p].body = "invalid"
       THEN Return(p, Resp(500, "Internal server error", None))
       ELSE IF MissingParameters(req[p])
       THEN Return(p, Resp(400, "Missing required parameters", None))
       ELSE Goto(p, "package")
    /\ UNCHANGED <<backendVars, req, authUser, packageData, profile, success, calls>>

\* cable_packages select resolves; then the profile select is awaited
GetPackage(p) ==
    /\ pc[p] = "package"
    /\ IF req[p].packageId \notin DOMAIN cable_packages
       THEN /\ Return(p, Resp(404, "Cable package not found", None))
            /\ UNCHANGED packageData
       ELSE /\ packageData' =
                  [packageData EXCEPT ![p] = cable_packages[req[p].packageId].amount]
            /\ Goto(p, "profile")
    /\ UNCHANGED <<backendVars, req, authUser, profile, success, calls>>

\* (mutant) a refusal for insufficient balance is recorded as a failed transaction
GetProfileRecordsRefusal(p) ==
    /\ pc[p] = "profile"
    /\ IF authUser[p] \notin DOMAIN profiles
       THEN /\ Return(p, Resp(404, "User profile not found", None))
            /\ UNCHANGED <<profile, success, transactions, calls>>
       ELSE /\ profile' = [profile EXCEPT ![p] = <<profiles[authUser[p]].balance>>]
            /\ IF InsufficientBalance(profiles[authUser[p]].balance, packageData[p])
               THEN /\ Return(p, Resp(400, "Insufficient balance", None))
                    /\ transactions' = InsertRow(transactions, TxRow(p, "failed"))
                    /\ calls' = [calls EXCEPT ![p] = Append(@, InsertCall(p, "failed", FALSE))]
                    /\ UNCHANGED success
               ELSE /\ \E ok \in BOOLEAN :
                          /\ success' = [success EXCEPT ![p] = ok]
                          /\ Goto(p, IF ok THEN "debit" ELSE "insertFailed")
                    /\ UNCHANGED <<transactions, calls>>
    /\ UNCHANGED <<profiles, req, authUser, packageData>>

\* profiles select resolves; balance check; mock provider call (Math.random);
\* then either the rpc or the failed-transaction insert is awaited
GetProfile(p) ==
    /\ pc[p] = "profile"
    /\ IF authUser[p] \notin DOMAIN profiles
       THEN /\ Return(p, Resp(404, "User profile not found", None))
            /\ UNCHANGED <<profile, success>>
       ELSE /\ profile' = [profile EXCEPT ![p] = <<profiles[authUser[p]].balance>>]
            /\ IF InsufficientBalance(profiles[authUser[p]].balance, packageData[p])
               THEN /\ Return(p, Resp(400, "Insufficient balance", None))
                    /\ UNCHANGED success
               ELSE \E ok \in BOOLEAN :
                       /\ success' = [success EXCEPT ![p] = ok]
                       /\ Goto(p, IF ok THEN "debit" ELSE "insertFailed")
    /\ UNCHANGED <<backendVars, req, authUser, packageData, calls>>

\* (mutant) updateBalanceError is only logged and the insert still follows
DebitNoReturnOnError(p) ==
    /\ pc[p] = "debit"
    /\ \E err \in BOOLEAN :
          /\ calls' = [calls EXCEPT ![p] = Append(@, RpcCall(p, err))]
          /\ IF err
             THEN UNCHANGED profiles
             ELSE profiles' = add_to_balance(profiles, AccountOf(p), DebitAmount(p))
          /\ Goto(p, "insert")
    /\ UNCHANGED <<transactions, req, authUser, packageData, profile, success>>

\* rpc('add_to_balance', {user_uuid, amount_to_add: -amount}) resolves,
\* with or without updateBalanceError; then the insert is awaited
Debit(p) ==
    /\ pc[p] = "debit"
    /\ \E err \in BOOLEAN :
          /\ calls' = [calls EXCEPT ![p] = Append(@, RpcCall(p, err))]
          /\ IF err
             THEN /\ Return(p, Resp(500, "Failed to update user balance", None))
                  /\ UNCHANGED profiles
             ELSE /\ profiles' = add_to_balance(profiles, AccountOf(p), DebitAmount(p))
                  /\ Goto(p, "insert")
    /\ UNCHANGED <<transactions, req, authUser, packageData, profile, success>>

\* (mutant) a failed insert gives the amount back
InsertSuccessRefund(p) ==
    /\ pc[p] = "insert"
    /\ \E err \in BOOLEAN :
          /\ calls' = [calls EXCEPT ![p] = Append(@, InsertCall(p, "success", err))]
          /\ IF err
             THEN /\ Return(p, Resp(500, "Failed to record transaction", None))
                  /\ profiles' = add_to_balance(profiles, authUser[p], packageData[p])
                  /\ UNCHANGED transactions
             ELSE /\ transactions' = InsertRow(transactions, TxRow(p, "success"))
                  /\ Return(p, Resp(200, None, "true"))
                  /\ UNCHANGED profiles
    /\ UNCHANGED <<req, authUser, packageData, profile, success>>

\* insert of the 'success' row resolves, with or without transactionError
InsertSuccess(p) ==
    /\ pc[p] = "insert"
    /\ \E err \in BOOLEAN :
          /\ calls' = [calls EXCEPT ![p] = Append(@, InsertCall(p, "success", err))]
          /\ IF err
             THEN /\ Return(p, Resp(500, "Failed to record transaction", None))
                  /\ UNCHANGED transactions
             ELSE /\ transactions' = InsertRow(transactions, TxRow(p, "success"))
                  /\ Return(p, Resp(200, None, "true"))
    /\ UNCHANGED <<profiles, req, authUser, packageData, profile, success>>

\* (mutant) an error of the insert is answered 500, as in the success branch
InsertFailedReportsError(p) ==
    /\ pc[p] = "insertFailed"
    /\ \E err \in BOOLEAN :
          /\ calls' = [calls EXCEPT ![p] = Append(@, InsertCall(p, "failed", err))]
          /\ IF err
             THEN /\ UNCHANGED transactions
                  /\ Return(p, Resp(500, "Failed to record transaction", None))
             ELSE /\ transactions' = InsertRow(transactions, TxRow(p, "failed"))
                  /\ Return(p, Resp(400, "Service provider API failure", "false"))
    /\ UNCHANGED <<profiles, req, authUser, packageData, profile, success>>

\* insert of the 'failed' row resolves; an error is only logged
InsertFailed(p) ==
    /\ pc[p] = "insertFailed"
    /\ \E err \in BOOLEAN :
          /\ calls' = [calls EXCEPT ![p] = Append(@, InsertCall(p, "failed", err))]
          /\ IF err
             THEN UNCHANGED transactions
             ELSE transactions' = InsertRow(transactions, TxRow(p, "failed"))
          /\ Return(p, Resp(400, "Service provider API failure", "false"))
    /\ UNCHANGED <<profiles, req, authUser, packageData, profile, success>>

HandlerInit ==
    /\ pc = [p \in Invocations |-> "idle"]
    /\ req = [p \in Invocations |-> NoReq]
    /\ authUser = [p \in Invocations |-> None]
    /\ packageData = [p \in Invocations |-> 0]
    /\ profile = [p \in Invocations |-> <<>>]
    /\ response = [p \in Invocations |-> NoResp]
    /\ success = [p \in Invocations |-> None]
    /\ calls = [p \in Invocations |-> <<>>]

BackendInit ==
    /\ profiles = InitProfiles
    /\ transactions = EmptyBag


(***************************************************************************)
(* AuthProvider (client)                                                   *)
(***************************************************************************)
\* setTimeout(..., 3000) of ProtectedRoute, in seconds (one Tick is a second)
LoadingTimeout == 3

\* users a client session can belong to
SessionUsers == ProfileIds

\* user === null
NoUser == [id |-> None, name |-> None, role |-> None, balance |-> 0]

\* userWithProfile built by fetchUserProfile from the profile row
\* (email and createdAt are not modelled)
UserWithProfile(userId, data) ==
    [id |-> userId, name |-> data.name, role |-> data.role, balance |-> data.balance]

\* isAuthenticated: !!user && !!session
IsAuthenticated(u, s) == u # NoUser /\ s # None
isAuthenticated == IsAuthenticated(user, session)

\* userData arguments of updateUserProfile (Partial<User>), by tag
UserDataTags == {"name", "role", "balance"}
UserData(tag) ==
    CASE tag = "name" -> [name |-> "n1"]
      [] tag = "role" -> [role |-> "admin"]
      [] tag = "balance" -> [balance |-> InitBalance + PriceLarge]

\* { ...prev, ...userData }
Merge(prev, userData) ==
    [f \in DOMAIN prev |-> IF f \in DOMAIN userData THEN userData[f] ELSE prev[f]]

\* a backend call or timer that has not resolved yet
Op(kind, uid, tag) == [kind |-> kind, uid |-> uid, tag |-> tag]
Start(op) == pending (+) SetToBag({op})
Finish(op) == pending (-) SetToBag({op})
MayStart == BagCardinality(pending) < MaxPending

(***************************************************************************)
(* ProtectedRoute                                                          *)
(***************************************************************************)
RedirectPath == "/login"
AllowedRolesProps == {{"customer", "admin"}, {"admin"}}

\* (mutant) refreshAttempted is not consulted
AutoRefreshDueAgain(loading, authenticated, attempted) ==
    ~loading /\ ~authenticated

\* if (!isLoading && !isAuthenticated && !refreshAttempted)
AutoRefreshDue(loading, authenticated, attempted) ==
    ~loading /\ ~authenticated /\ ~attempted

\* (mutant) Login redirects as soon as a user is mirrored
RedirectAwayOnUser(authenticated, u) ==
    IF u # NoUser
    THEN (IF u.role = "admin" THEN "/admin" ELSE "/dashboard")
    ELSE None

\* Login page: if (isAuthenticated && user) navigate(redirectPath), else it stays
RedirectAway(authenticated, u) ==
    IF authenticated /\ u # NoUser
    THEN (IF u.role = "admin" THEN "/admin" ELSE "/dashboard")
    ELSE None

\* (mutant) the role is not checked
RouteViewNoRoleCheck(loading, authenticated, u, roles) ==
    IF loading THEN "loading"
    ELSE IF ~authenticated \/ u = NoUser THEN RedirectPath
    ELSE "outlet"

\* what ProtectedRoute returns
RouteView(loading, authenticated, u, roles) ==
    IF loading THEN "loading"
    ELSE IF ~authenticated \/ u = NoUser THEN RedirectPath
    ELSE IF u.role \notin roles THEN "/unauthorized"
    ELSE "outlet"

\* the refresh buttons are rendered
AffordanceShown == routeMounted /\ isLoading /\ loadingTimeExceeded

Capped(n, max) == IF n < max THEN n ELSE max

\* (mutant) the cleanup does not clear the timer
TimeoutAfterLoadingChangeKept(old, nowLoading) ==
    IF nowLoading THEN (IF old >= 0 THEN old ELSE 0) ELSE old

\* cleanup (clearTimeout) and re-run of the timeout effect: the new timeoutId
TimeoutAfterLoadingChange(old, nowLoading) ==
    IF nowLoading THEN 0 ELSE -1

\* the auto-refresh effect, run with the auth state after the step.
\* refreshSession is not part of the context value; what a call of it does to
\* the session reaches the provider, if at all, as a later auth event.
AutoRefreshEffect ==
    IF AutoRefreshDue(isLoading', IsAuthenticated(user', session'), refreshAttempted)
    THEN /\ refreshAttempted' = TRUE
         /\ autoRefreshCalls' = Capped(autoRefreshCalls + 1, MaxRefreshCalls)
    ELSE UNCHANGED <<refreshAttempted, autoRefreshCalls>>

\* the loading-timeout effect, whose only dependency is isLoading
LoadingTimeoutEffect ==
    IF isLoading' = isLoading
    THEN UNCHANGED <<loadingTimeExceeded, timeoutId>>
    ELSE /\ timeoutId' = TimeoutAfterLoadingChange(timeoutId, isLoading')
         /\ loadingTimeExceeded' = (isLoading' /\ loadingTimeExceeded)

\* re-render of a mounted ProtectedRoute after the auth state changed, with
\* its effects; loadingFor restarts whenever isLoading was or becomes false
RouteEffects ==
    /\ loadingFor' = IF isLoading' /\ isLoading THEN loadingFor ELSE 0
    /\ UNCHANGED <<routeMounted, allowedRoles>>
    /\ IF routeMounted
       THEN AutoRefreshEffect /\ LoadingTimeoutEffect
       ELSE UNCHANGED <<loadingTimeExceeded, refreshAttempted, timeoutId,
                        autoRefreshCalls>>

(***************************************************************************)
(* AuthProvider operations.  Each ends with RouteEffects: React renders    *)
(* and flushes effects before it handles the next event.                   *)
(***************************************************************************)
\* handleAuthChange(currentSession)
handleAuthChange(currentSession, rest) ==
    IF ~isMounted
    THEN /\ pending' = rest
         /\ UNCHANGED <<user, session, isLoading>>
    ELSE /\ session' = currentSession
         /\ IF currentSession # None
            THEN /\ pending' = rest (+) SetToBag({Op("timer", currentSession, None)})
                 /\ UNCHANGED <<user, isLoading>>
            ELSE /\ user' = NoUser
                 /\ isLoading' = FALSE
                 /\ pending' = rest

\* onAuthStateChange callback: the platform pushes an event
AuthStateChange(s) ==
    /\ isMounted
    /\ s = None \/ MayStart
    /\ handleAuthChange(s, pending)
    /\ UNCHANGED <<backendVars, isMounted>>
    /\ RouteEffects

\* checkSession: getSession() resolves with a session or with none
GetSessionResolves(s) ==
    /\ BagIn(Op("getSession", None, None), pending)
    /\ handleAuthChange(s, Finish(Op("getSession", None, None)))
    /\ UNCHANGED <<backendVars, isMounted>>
    /\ RouteEffects

\* checkSession: getSession() rejects
GetSessionRejects ==
    /\ BagIn(Op("getSession", None, None), pending)
    /\ pending' = Finish(Op("getSession", None, None))
    /\ IF isMounted
       THEN user' = NoUser /\ isLoading' = FALSE
       ELSE UNCHANGED <<user, isLoading>>
    /\ UNCHANGED <<backendVars, session, isMounted>>
    /\ RouteEffects

\* the setTimeout(..., 0) of handleAuthChange fires: fetchUserProfile starts
TimerFires(u) ==
    /\ BagIn(Op("timer", u, None), pending)
    /\ pending' = IF isMounted
                  THEN Finish(Op("timer", u, None)) (+) SetToBag({Op("fetch", u, "event")})
                  ELSE Finish(Op("timer", u, None))
    /\ UNCHANGED <<backendVars, user, session, isLoading, isMounted>>
    /\ RouteEffects

\* fetchUserProfile: the profiles select resolves; the new value of user
FetchedUser(u, found) ==
    IF found THEN UserWithProfile(u, profiles[u]) ELSE user

\* (mutant) setIsLoading(false) only once a profile was fetched
FetchResolvesLoadingUntilFound(u, origin, found) ==
    /\ BagIn(Op("fetch", u, origin), pending)
    /\ pending' = Finish(Op("fetch", u, origin))
    /\ user' = FetchedUser(u, found)
    /\ isLoading' = IF found /\ (origin = "login" \/ isMounted) THEN FALSE ELSE isLoading
    /\ UNCHANGED <<backendVars, session, isMounted>>
    /\ RouteEffects

\* fetchUserProfile resolves, then its caller goes on: the .finally of
\* handleAuthChange's timer, or login's try / catch / finally
FetchResolves(u, origin, found) ==
    /\ BagIn(Op("fetch", u, origin), pending)
    /\ pending' = Finish(Op("fetch", u, origin))
    /\ user' = FetchedUser(u, found)
    /\ isLoading' = IF origin = "login" \/ isMounted THEN FALSE ELSE isLoading
    /\ UNCHANGED <<backendVars, session, isMounted>>
    /\ RouteEffects

\* login: setIsLoading(true), signInWithPassword is awaited
Login ==
    /\ MayStart
    /\ isLoading' = TRUE
    /\ pending' = Start(Op("signIn", None, None))
    /\ UNCHANGED <<backendVars, user, session, isMounted>>
    /\ RouteEffects

\* login: signInWithPassword rejects or returns an error
SignInFails ==
    /\ BagIn(Op("signIn", None, None), pending)
    /\ pending' = Finish(Op("signIn", None, None))
    /\ isLoading' = FALSE
    /\ UNCHANGED <<backendVars, user, session, isMounted>>
    /\ RouteEffects

\* login: signInWithPassword returns a session; fetchUserProfile is awaited
SignInResolves(s) ==
    /\ BagIn(Op("signIn", None, None), pending)
    /\ session' = s
    /\ pending' = Finish(Op("signIn", None, None)) (+) SetToBag({Op("fetch", s, "login")})
    /\ UNCHANGED <<backendVars, user, isLoading, isMounted>>
    /\ RouteEffects

\* register: setIsLoading(true), signUp is awaited
Register ==
    /\ MayStart
    /\ isLoading' = TRUE
    /\ pending' = Start(Op("signUp", None, None))
    /\ UNCHANGED <<backendVars, user, session, isMounted>>
    /\ RouteEffects

\* register: signUp resolves or fails; finally setIsLoading(false)
SignUpResolves ==
    /\ BagIn(Op("signUp", None, None), pending)
    /\ pending' = Finish(Op("signUp", None, None))
    /\ isLoading' = FALSE
    /\ UNCHANGED <<backendVars, user, session, isMounted>>
    /\ RouteEffects

\* logout: signOut is awaited
Logout ==
    /\ MayStart
    /\ pending' = Start(Op("signOut", None, None))
    /\ UNCHANGED <<backendVars, user, session, isLoading, isMounted>>
    /\ RouteEffects

\* logout: signOut resolves (setUser(null), setSession(null)) or throws
SignOutResolves(thrown) ==
    /\ BagIn(Op("signOut", None, None), pending)
    /\ pending' = Finish(Op("signOut", None, None))
    /\ IF thrown
       THEN UNCHANGED <<user, session>>
       ELSE user' = NoUser /\ session' = None
    /\ UNCHANGED <<backendVars, isLoading, isMounted>>
    /\ RouteEffects

\* updateUserProfile(userData): the profiles update is awaited
UpdateUserProfile(tag) ==
    /\ user # NoUser
    /\ MayStart
    /\ pending' = Start(Op("update", user.id, tag))
    /\ UNCHANGED <<backendVars, user, session, isLoading, isMounted>>
    /\ RouteEffects

\* .update({ name: userData.name }): the row after the update
UpdatedRow(row, userData) ==
    IF "name" \in DOMAIN userData THEN [row EXCEPT !.name = userData.name] ELSE row

\* updateUserProfile: the update resolves; setUser(prev => ...) unless it failed
UpdateResolves(uid, tag, failed) ==
    /\ BagIn(Op("update", uid, tag), pending)
    /\ pending' = Finish(Op("update", uid, tag))
    /\ IF failed
       THEN UNCHANGED <<profiles, user>>
       ELSE /\ profiles' = [profiles EXCEPT ![uid] = UpdatedRow(@, UserData(tag))]
            /\ user' = IF user # NoUser THEN Merge(user, UserData(tag)) ELSE NoUser
    /\ UNCHANGED <<transactions, session, isLoading, isMounted>>
    /\ RouteEffects

\* the purchase handler debits the account while the client runs
BackendDebit(u) ==
    /\ ~InsufficientBalance(profiles[u].balance, PriceLarge)
    /\ profiles' = add_to_balance(profiles, u, 0 - PriceLarge)
    /\ UNCHANGED <<transactions, authVars, routeVars>>

(***************************************************************************)
(* ProtectedRoute operations                                               *)
(***************************************************************************)
\* a ProtectedRoute mounts with fresh state; its effects run once
MountRoute(roles) ==
    /\ ~routeMounted
    /\ routeMounted' = TRUE
    /\ allowedRoles' = roles
    /\ IF AutoRefreshDue(isLoading, isAuthenticated, FALSE)
       THEN refreshAttempted' = TRUE /\ autoRefreshCalls' = 1
       ELSE refreshAttempted' = FALSE /\ autoRefreshCalls' = 0
    /\ loadingTimeExceeded' = FALSE
    /\ timeoutId' = TimeoutAfterLoadingChange(-1, isLoading)
    /\ UNCHANGED <<backendVars, authVars, loadingFor>>

\* navigation away (also what a rendered <Navigate> leads to): cleanup
UnmountRoute ==
    /\ routeMounted
    /\ routeMounted' = FALSE
    /\ allowedRoles' = {}
    /\ loadingTimeExceeded' = FALSE
    /\ refreshAttempted' = FALSE
    /\ timeoutId' = -1
    /\ autoRefreshCalls' = 0
    /\ UNCHANGED <<backendVars, authVars, loadingFor>>

\* a second passes
Tick ==
    /\ isLoading \/ timeoutId >= 0
    /\ loadingFor' = IF isLoading THEN Capped(loadingFor + 1, LoadingTimeout) ELSE 0
    /\ timeoutId' = IF timeoutId >= 0 THEN Capped(timeoutId + 1, LoadingTimeout) ELSE -1
    /\ loadingFor' # loadingFor \/ timeoutId' # timeoutId
    /\ UNCHANGED <<backendVars, authVars, routeMounted, allowedRoles,
                   loadingTimeExceeded, refreshAttempted, autoRefreshCalls>>

\* the 3 s timer fires: setLoadingTimeExceeded(true)
TimeoutFires ==
    /\ routeMounted
    /\ timeoutId >= LoadingTimeout
    /\ loadingTimeExceeded' = TRUE
    /\ timeoutId' = -1
    /\ UNCHANGED <<backendVars, authVars, routeMounted, allowedRoles,
                   refreshAttempted, autoRefreshCalls, loadingFor>>

\* clearAuthState(); window.location.reload(): the page starts again, the
\* provider in its initial state and the same route freshly mounted
ReloadPage ==
    /\ user' = NoUser
    /\ session' = None
    /\ isLoading' = TRUE
    /\ pending' = SetToBag({Op("getSession", None, None)})
    /\ loadingTimeExceeded' = FALSE
    /\ refreshAttempted' = FALSE
    /\ autoRefreshCalls' = 0
    /\ timeoutId' = TimeoutAfterLoadingChange(-1, TRUE)
    /\ loadingFor' = 0
    /\ UNCHANGED <<backendVars, isMounted, routeMounted, allowedRoles>>

\* "Refresh auth": setLoadingTimeExceeded(false), refreshSession() is awaited;
\* when it rejects the page is reloaded
HandleRefresh(rejected) ==
    /\ AffordanceShown
    /\ IF rejected
       THEN ReloadPage
       ELSE /\ loadingTimeExceeded' = FALSE
            /\ UNCHANGED <<backendVars, authVars, routeMounted, allowedRoles,
                           refreshAttempted, timeoutId, autoRefreshCalls, loadingFor>>

\* "Clear & reload"
HandleFullReload ==
    /\ AffordanceShown
    /\ ReloadPage

AuthInit ==
    /\ user = NoUser
    /\ session = None
    /\ isLoading = TRUE
    /\ isMounted = TRUE
    /\ pending = SetToBag({Op("getSession", None, None)})

RouteInit ==
    /\ routeMounted = FALSE
    /\ allowedRoles = {}
    /\ loadingTimeExceeded = FALSE
    /\ refreshAttempted = FALSE
    /\ timeoutId = -1
    /\ autoRefreshCalls = 0
    /\ loadingFor = 0

Init == BackendInit /\ HandlerInit /\ AuthInit /\ RouteInit

Next ==
    \/ \E p \in Invocations, r \in Requests :
          Receive(p, r) /\ UNCHANGED <<authVars, routeVars>>
    \/ \E p \in Invocations : GetUser(p) /\ UNCHANGED <<authVars, routeVars>>
    \/ \E p \in Invocations : ParseBody(p) /\ UNCHANGED <<authVars, routeVars>>
    \/ \E p \in Invocations : GetPackage(p) /\ UNCHANGED <<authVars, routeVars>>
    \/ \E p \in Invocations : GetProfile(p) /\ UNCHANGED <<authVars, routeVars>>
    \/ \E p \in Invocations : Debit(p) /\ UNCHANGED <<authVars, routeVars>>
    \/ \E p \in Invocations : InsertSuccess(p) /\ UNCHANGED <<authVars, routeVars>>
    \/ \E p \in Invocations : InsertFailed(p) /\ UNCHANGED <<authVars, routeVars>>

Spec == Init /\ [][Next]_vars

\* a request that arrives when no invocation for the same account is in flight
ReceiveSerial(p, r) ==
    /\ \A q \in Invocations \ {p} :
          pc[q] \in {"idle", "done"} \/ req[q].auth # r.auth
    /\ Receive(p, r)

\* the handler when the invocations for one account never overlap
SeqNext ==
    \/ \E p \in Invocations, r \in Requests :
          ReceiveSerial(p, r) /\ UNCHANGED <<authVars, routeVars>>
    \/ \E p \in Invocations : GetUser(p) /\ UNCHANGED <<authVars, routeVars>>
    \/ \E p \in Invocations : ParseBody(p) /\ UNCHANGED <<authVars, routeVars>>
    \/ \E p \in Invocations : GetPackage(p) /\ UNCHANGED <<authVars, routeVars>>
    \/ \E p \in Invocations : GetProfile(p) /\ UNCHANGED <<authVars, routeVars>>
    \/ \E p \in Invocations : Debit(p) /\ UNCHANGED <<authVars, routeVars>>
    \/ \E p \in Invocations : InsertSuccess(p) /\ UNCHANGED <<authVars, routeVars>>
    \/ \E p \in Invocations : InsertFailed(p) /\ UNCHANGED <<authVars, routeVars>>

SeqSpec == Init /\ [][SeqNext]_vars

\* the client's AuthProvider, with the backend debiting accounts meanwhile
AuthNext ==
    \/ \E s \in SessionUsers \cup {None} : AuthStateChange(s) /\ UNCHANGED handlerVars
    \/ \E s \in SessionUsers \cup {None} : GetSessionResolves(s) /\ UNCHANGED handlerVars
    \/ GetSessionRejects /\ UNCHANGED handlerVars
    \/ \E u \in SessionUsers : TimerFires(u) /\ UNCHANGED handlerVars
    \/ \E u \in SessionUsers, origin \in {"event", "login"}, found \in BOOLEAN :
          FetchResolves(u, origin, found) /\ UNCHANGED handlerVars
    \/ Login /\ UNCHANGED handlerVars
    \/ SignInFails /\ UNCHANGED handlerVars
    \/ \E s \in SessionUsers : SignInResolves(s) /\ UNCHANGED handlerVars
    \/ Register /\ UNCHANGED handlerVars
    \/ SignUpResolves /\ UNCHANGED handlerVars
    \/ Logout /\ UNCHANGED handlerVars
    \/ \E thrown \in BOOLEAN : SignOutResolves(thrown) /\ UNCHANGED handlerVars
    \/ \E tag \in UserDataTags : UpdateUserProfile(tag) /\ UNCHANGED handlerVars
    \/ \E uid \in SessionUsers, tag \in UserDataTags, failed \in BOOLEAN :
          UpdateResolves(uid, tag, failed) /\ UNCHANGED handlerVars
    \/ \E u \in ProfileIds : BackendDebit(u) /\ UNCHANGED handlerVars

AuthSpec == Init /\ [][AuthNext]_vars

\* every backend call resolves or rejects and every timer fires: a pending
\* getSession, timer, profile fetch, sign-in or sign-up is not left pending forever
BackendCallsResolve ==
    /\ WF_vars((\/ \E s \in SessionUsers \cup {None} : GetSessionResolves(s)
                \/ GetSessionRejects) /\ UNCHANGED handlerVars)
    /\ \A u \in SessionUsers : WF_vars(TimerFires(u) /\ UNCHANGED handlerVars)
    /\ \A u \in SessionUsers, origin \in {"event", "login"} :
          WF_vars((\E found \in BOOLEAN : FetchResolves(u, origin, found))
                     /\ UNCHANGED handlerVars)
    /\ WF_vars((\/ SignInFails
                \/ \E s \in SessionUsers : SignInResolves(s)) /\ UNCHANGED handlerVars)
    /\ WF_vars(SignUpResolves /\ UNCHANGED handlerVars)

\* the steps of the AuthProvider that set isLoading or lead to a step that
\* does, and logout; profile updates and the backend's debits neither read
\* nor write isLoading and are left out
LoadingNext ==
    \/ \E s \in SessionUsers \cup {None} : AuthStateChange(s) /\ UNCHANGED handlerVars
    \/ \E s \in SessionUsers \cup {None} : GetSessionResolves(s) /\ UNCHANGED handlerVars
    \/ GetSessionRejects /\ UNCHANGED handlerVars
    \/ \E u \in SessionUsers : TimerFires(u) /\ UNCHANGED handlerVars
    \/ \E u \in SessionUsers, origin \in {"event", "login"}, found \in BOOLEAN :
          FetchResolves(u, origin, found) /\ UNCHANGED handlerVars
    \/ Login /\ UNCHANGED handlerVars
    \/ SignInFails /\ UNCHANGED handlerVars
    \/ \E s \in SessionUsers : SignInResolves(s) /\ UNCHANGED handlerVars
    \/ Register /\ UNCHANGED handlerVars
    \/ SignUpResolves /\ UNCHANGED handlerVars
    \/ Logout /\ UNCHANGED handlerVars
    \/ \E thrown \in BOOLEAN : SignOutResolves(thrown) /\ UNCHANGED handlerVars

LoadingSpec == Init /\ [][LoadingNext]_vars /\ BackendCallsResolve

\* a ProtectedRoute under the AuthProvider.  The route reads isLoading,
\* isAuthenticated and user.role only, so the steps that change nothing but
\* a name or a balance (and the backend's debits) are left out here.
RouteNext ==
    \/ \E s \in SessionUsers \cup {None} : AuthStateChange(s) /\ UNCHANGED handlerVars
    \/ \E s \in SessionUsers \cup {None} : GetSessionResolves(s) /\ UNCHANGED handlerVars
    \/ GetSessionRejects /\ UNCHANGED handlerVars
    \/ \E u \in SessionUsers : TimerFires(u) /\ UNCHANGED handlerVars
    \/ \E u \in SessionUsers, origin \in {"event", "login"}, found \in BOOLEAN :
          FetchResolves(u, origin, found) /\ UNCHANGED handlerVars
    \/ Login /\ UNCHANGED handlerVars
    \/ SignInFails /\ UNCHANGED handlerVars
    \/ \E s \in SessionUsers : SignInResolves(s) /\ UNCHANGED handlerVars
    \/ Register /\ UNCHANGED handlerVars
    \/ SignUpResolves /\ UNCHANGED handlerVars
    \/ Logout /\ UNCHANGED handlerVars
    \/ \E thrown \in BOOLEAN : SignOutResolves(thrown) /\ UNCHANGED handlerVars
    \/ UpdateUserProfile("role") /\ UNCHANGED handlerVars
    \/ \E uid \in SessionUsers, failed \in BOOLEAN :
          UpdateResolves(uid, "role", failed) /\ UNCHANGED handlerVars
    \/ \E roles \in AllowedRolesProps : MountRoute(roles) /\ UNCHANGED handlerVars
    \/ UnmountRoute /\ UNCHANGED handlerVars
    \/ Tick /\ UNCHANGED handlerVars
    \/ TimeoutFires /\ UNCHANGED handlerVars
    \/ \E rejected \in BOOLEAN : HandleRefresh(rejected) /\ UNCHANGED handlerVars
    \/ HandleFullReload /\ UNCHANGED handlerVars

RouteSpec == Init /\ [][RouteNext]_vars

(***************************************************************************)
(* Quantities read off the call logs                                       *)
(***************************************************************************)
RECURSIVE SumOver(_, _)
SumOver(S, f) ==
    IF S = {} THEN 0
    ELSE LET x == CHOOSE y \in S : TRUE IN f[x] + SumOver(S \ {x}, f)

\* calls of kind op this invocation has made, and those that reported no error
Issued(p, op) == SelectSeq(calls[p], LAMBDA c : c.op = op)
Succeeded(p, op) == SelectSeq(calls[p], LAMBDA c : c.op = op /\ ~c.err)

HasDebited(p) == Len(Succeeded(p, "add_to_balance")) > 0
HasInserted(p) == Len(Succeeded(p, "insert")) > 0

\* what the invocations that debited account u have taken, by the prices they read
TakenFrom(u) ==
    LET Takers == {p \in Invocations : authUser[p] = u /\ HasDebited(p)}
        Price == [p \in Takers |->
                     packageData[p] * Len(Succeeded(p, "add_to_balance"))]
    IN SumOver(Takers, Price)

\* rows of the transactions table with the given user, reference and status
RowsWith(u, ref, st) ==
    LET Rows == {r \in BagToSet(transactions) :
                    r.user_id = u /\ r.reference = ref /\ r.status = st}
        Copies == [r \in Rows |-> CopiesIn(r, transactions)]
    IN SumOver(Rows, Copies)

InsertsBy(p) == Len(Succeeded(p, "insert"))
AllInserts == SumOver(Invocations, [p \in Invocations |-> InsertsBy(p)])

Insufficient == Resp(400, "Insufficient balance", None)

(***************************************************************************)
(* C1: the debit is issued only by an invocation whose own read of the     *)
(* balance was >= the package amount; an invocation that read less answers *)
(* 400 'Insufficient balance' and makes neither the rpc nor an insert.     *)
(***************************************************************************)
C1_DebitOnlyIfReadBalanceCovers ==
    \A p \in Invocations :
       /\ (pc[p] \in {"debit", "insert"} \/ Len(Issued(p, "add_to_balance")) > 0)
             => /\ profile[p] # <<>>
                /\ profile[p][1] >= packageData[p]
       /\ (profile[p] # <<>> /\ profile[p][1] < packageData[p])
             => /\ pc[p] = "done"
                /\ response[p] = Insufficient
                /\ calls[p] = <<>>
       /\ response[p] = Insufficient
             => profile[p] # <<>> /\ profile[p][1] < packageData[p]

C1_Witness ==
    \E p, q \in Invocations :
       /\ response[p] = Insufficient
       /\ HasDebited(q)
       /\ authUser[p] = authUser[q]

(***************************************************************************)
(* C2: two invocations for one account that both read the balance before  *)
(* either debits both debit, and the stored balance ends at or below the   *)
(* balance they read less both prices: below zero when the balance covers  *)
(* one price but not two.                                                  *)
(***************************************************************************)
\* equal reads by two debiting invocations: neither read after the other's debit
RacedPast(p, q) ==
    /\ p # q
    /\ authUser[p] = authUser[q]
    /\ HasDebited(p) /\ HasDebited(q)
    /\ profile[p] = profile[q]

C2_DoubleSpend ==
    \A p, q \in Invocations :
       RacedPast(p, q) =>
          /\ profile[p][1] >= packageData[p] /\ profile[q][1] >= packageData[q]
          /\ profiles[authUser[p]].balance
                <= profile[p][1] - packageData[p] - packageData[q]

C2_Witness ==
    \E p, q \in Invocations :
       /\ RacedPast(p, q)
       /\ profile[p][1] = InitBalance
       /\ packageData[p] = packageData[q]
       /\ InitBalance >= packageData[p]
       /\ InitBalance < 2 * packageData[p]
       /\ profiles[authUser[p]].balance < 0

(***************************************************************************)
(* C3 (as claimed): every completed non-OPTIONS invocation has appended    *)
(* exactly one transaction.                                                *)
(***************************************************************************)
C3_OneTransactionPerAttempt ==
    \A p \in Invocations :
       (pc[p] = "done" /\ req[p].method # "OPTIONS") => InsertsBy(p) = 1

(***************************************************************************)
(* C3 (amended): an invocation appends at most one transaction; a          *)
(* completed one has appended exactly one when it answers 200 or when it   *)
(* answers 400 'Service provider API failure' and its insert reported no   *)
(* error, and none otherwise; the table holds exactly the appended rows.   *)
(***************************************************************************)
AppendsOne(p) ==
    \/ response[p].status = 200 /\ req[p].method # "OPTIONS"
    \/ /\ response[p] = Resp(400, "Service provider API failure", "false")
       /\ Len(Issued(p, "insert")) = 1
       /\ ~Issued(p, "insert")[1].err

C3_AtMostOneTransaction ==
    /\ \A p \in Invocations :
          /\ InsertsBy(p) <= 1
          /\ Len(Issued(p, "insert")) <= 1
          /\ pc[p] = "done" => (InsertsBy(p) = 1 <=> AppendsOne(p))
    /\ BagCardinality(transactions) = AllInserts

C3_Witness ==
    \E p, q \in Invocations :
       /\ pc[p] = "done" /\ req[p].method # "OPTIONS" /\ InsertsBy(p) = 0
       /\ pc[q] = "done" /\ InsertsBy(q) = 1 /\ response[q].status = 400

(***************************************************************************)
(* C4: once the rpc has succeeded and the insert has failed, the           *)
(* invocation is over with 500 'Failed to record transaction', the balance *)
(* is the starting balance less everything debited (this debit included),  *)
(* and the table holds no row from this invocation, in every later state.  *)
(***************************************************************************)
DebitedUnrecorded(p) ==
    /\ HasDebited(p)
    /\ Len(Issued(p, "insert")) > 0
    /\ ~HasInserted(p)

C4_DebitStaysWithoutRecord ==
    \A p \in Invocations :
       DebitedUnrecorded(p) =>
          /\ pc[p] = "done"
          /\ response[p] = Resp(500, "Failed to record transaction", None)
          /\ Len(calls[p]) = 2
          /\ profiles[authUser[p]].balance = InitBalance - TakenFrom(authUser[p])
          /\ TakenFrom(authUser[p]) >= packageData[p]
          /\ BagCardinality(transactions) = AllInserts
          /\ RowsWith(authUser[p], req[p].reference, "success")
                = Cardinality({q \in Invocations :
                                  /\ authUser[q] = authUser[p]
                                  /\ req[q].reference = req[p].reference
                                  /\ response[q].status = 200})

C4_Witness ==
    \E p, q \in Invocations :
       /\ DebitedUnrecorded(p)
       /\ p < q /\ pc[q] = "done" /\ authUser[q] = authUser[p]
       /\ profile[q] = <<InitBalance - packageData[p]>>

(***************************************************************************)
(* C5: two requests of one user with the same reference that both answer   *)
(* 200 have each debited and each inserted: the balance is down by both    *)
(* prices and the table holds two success rows with that reference.        *)
(***************************************************************************)
SameReferenceTwice(p, q) ==
    /\ p # q
    /\ authUser[p] = authUser[q]
    /\ req[p].reference = req[q].reference
    /\ response[p].status = 200 /\ req[p].method # "OPTIONS"
    /\ response[q].status = 200 /\ req[q].method # "OPTIONS"

C5_ReferenceNotIdempotent ==
    \A p, q \in Invocations :
       SameReferenceTwice(p, q) =>
          /\ HasDebited(p) /\ HasDebited(q)
          /\ HasInserted(p) /\ HasInserted(q)
          /\ profiles[authUser[p]].balance
                <= InitBalance - packageData[p] - packageData[q]
          /\ RowsWith(authUser[p], req[p].reference, "success") >= 2

C5_Witness ==
    \E p, q \in Invocations :
       /\ SameReferenceTwice(p, q)
       /\ req[p] = req[q]
       /\ profile[p][1] >= packageData[p]
       /\ profile[q][1] = profile[p][1] - packageData[p]
       /\ profile[q][1] >= packageData[q]
       /\ profiles[authUser[p]].balance = InitBalance - 2 * packageData[p]

(***************************************************************************)
(* C6: the status of a completed non-OPTIONS invocation is that of the     *)
(* first failing check in the order: header, token, (body parse), required *)
(* parameters, package, profile, balance, provider, rpc, insert; 200 when  *)
(* none fails; and it is one of 200, 400, 401, 404, 500.                   *)
(***************************************************************************)
\* outcome of a call the invocation made: TRUE when it reported an error
Failed(p, op) == Len(Issued(p, op)) > 0 /\ Issued(p, op)[1].err

StatusByOrder(p) ==
    LET r == req[p] IN
    IF r.auth = None THEN 401
    ELSE IF r.auth \notin AuthUsers THEN 401
    ELSE IF r.body = "invalid" THEN 500
    ELSE IF r.packageId = None \/ r.smartCardNumber = None \/ r.reference = None
    THEN 400
    ELSE IF r.packageId \notin DOMAIN cable_packages THEN 404
    ELSE IF r.auth \notin ProfileIds THEN 404
    ELSE IF profile[p][1] < cable_packages[r.packageId].amount THEN 400
    ELSE IF success[p] = FALSE THEN 400
    ELSE IF Failed(p, "add_to_balance") THEN 500
    ELSE IF Failed(p, "insert") THEN 500
    ELSE 200

C6_StatusByFirstFailingCheck ==
    \A p \in Invocations :
       (pc[p] = "done" /\ req[p].method # "OPTIONS") =>
          /\ response[p].status = StatusByOrder(p)
          /\ response[p].status \in {200, 400, 401, 404, 500}

C6_Witness ==
    \E p, q \in Invocations :
       /\ pc[p] = "done" /\ req[p].packageId = None /\ response[p].status = 400
       /\ pc[q] = "done" /\ response[q].status = 500 /\ HasDebited(q)

(***************************************************************************)
(* C7: a mounted ProtectedRoute renders the child routes exactly when      *)
(* isLoading is false, isAuthenticated is true, user is non-null and       *)
(* user.role is in allowedRoles; with loading finished it redirects to     *)
(* redirectPath when unauthenticated or user-less, and to /unauthorized    *)
(* when authenticated with a role outside allowedRoles.                    *)
(***************************************************************************)
Rendered == RouteView(isLoading, isAuthenticated, user, allowedRoles)

C7_OutletOnlyForAllowedRole ==
    routeMounted =>
       /\ Rendered = "outlet" <=>
             (~isLoading /\ isAuthenticated /\ user # NoUser
                /\ user.role \in allowedRoles)
       /\ (~isLoading /\ (~isAuthenticated \/ user = NoUser))
             => Rendered = RedirectPath
       /\ (~isLoading /\ isAuthenticated /\ user # NoUser
             /\ user.role \notin allowedRoles)
             => Rendered = "/unauthorized"

C7_Witness ==
    /\ routeMounted
    /\ ~isLoading /\ isAuthenticated
    /\ user.role = "customer" /\ allowedRoles = {"admin"}
    /\ Rendered = "/unauthorized"

(***************************************************************************)
(* C8 (as claimed): once the context holds no session and a null user, the *)
(* user stays null for as long as no session is set, whatever profile      *)
(* fetch completes meanwhile.                                              *)
(***************************************************************************)
C8_UserStaysNullWithoutSession ==
    [][(session = None /\ user = NoUser /\ session' = None) => user' = NoUser]_vars

(***************************************************************************)
(* C9 (as claimed): the role and balance of the client's user change only  *)
(* to the values of the backend profile row, and no step of the client     *)
(* changes the role or balance of a backend row.                           *)
(***************************************************************************)
C9_RoleAndBalanceMirrorBackend ==
    [][/\ (/\ user' # NoUser
           /\ user # NoUser
           /\ user'.role # user.role \/ user'.balance # user.balance)
          => /\ user'.role = profiles'[user'.id].role
             /\ user'.balance = profiles'[user'.id].balance
       /\ \A u \in ProfileIds :
             /\ profiles'[u].role = profiles[u].role
             /\ profiles'[u].balance # profiles[u].balance
                   => UNCHANGED authVars]_vars

(***************************************************************************)
(* C10: the refresh affordance is shown only while isLoading is true and   *)
(* has been true for 3 seconds without a break; with isLoading false the   *)
(* flag is clear and no timer is pending; and the step that raises the     *)
(* flag changes neither user, session, isLoading nor the pending calls.    *)
(***************************************************************************)
C10_AffordanceOnlyAfterTimeout ==
    /\ [](AffordanceShown => isLoading /\ loadingFor >= LoadingTimeout)
    /\ []((routeMounted /\ loadingTimeExceeded) => isLoading)
    /\ []((routeMounted /\ ~isLoading) => timeoutId = -1)
    /\ [][(loadingTimeExceeded' /\ ~loadingTimeExceeded)
             => UNCHANGED <<user, session, isLoading, pending, profiles>>]_vars

C10_Witness ==
    /\ AffordanceShown
    /\ loadingFor >= LoadingTimeout
    /\ BagCardinality(pending) > 0

(***************************************************************************)
(* C11: every balance is the starting balance less what the invocations    *)
(* verified as that user have debited, and every row of the table carries  *)
(* the verified user of an invocation that inserted it, whatever the body  *)
(* says; an invocation whose token is missing or not verified reads        *)
(* neither a package nor a profile and makes no write call.                *)
(***************************************************************************)
Unverified(p) == pc[p] # "idle" /\ req[p].method = "POST" /\ req[p].auth \notin AuthUsers

C11_WritesTargetVerifiedUser ==
    /\ \A u \in ProfileIds :
          profiles[u].balance
             = InitBalance
               - SumOver({p \in Invocations : req[p].auth = u /\ HasDebited(p)},
                         [p \in Invocations |-> packageData[p]])
    /\ \A row \in BagToSet(transactions) :
          CopiesIn(row, transactions)
             = Cardinality({p \in Invocations :
                              /\ HasInserted(p)
                              /\ req[p].auth = row.user_id
                              /\ req[p].reference = row.reference
                              /\ packageData[p] = row.amount
                              /\ Succeeded(p, "insert")[1].status = row.status})
    /\ \A p \in Invocations :
          /\ \A i \in 1..Len(calls[p]) : calls[p][i].user = req[p].auth
          /\ Unverified(p) =>
                /\ pc[p] \in {"getUser", "done"}
                /\ authUser[p] = None
                /\ packageData[p] = 0
                /\ profile[p] = <<>>
                /\ calls[p] = <<>>
                /\ pc[p] = "done" => response[p].status = 401

C11_Witness ==
    \E p, q \in Invocations :
       /\ "user_id" \in DOMAIN req[p] /\ req[p].user_id # req[p].auth
       /\ HasDebited(p) /\ HasInserted(p)
       /\ profiles[req[p].user_id].balance = InitBalance
       /\ Unverified(q) /\ pc[q] = "done"

(***************************************************************************)
(* C12: a purchase answered 200 has made exactly two write calls, in this  *)
(* order and both without error: the rpc with the negated amount of the    *)
(* package it read, for the verified user, and the insert of a 'success'   *)
(* row with that amount, that user and the reference of the request, which *)
(* is in the table; an invocation whose rpc reported an error has issued   *)
(* no insert of a 'success' row.                                           *)
(***************************************************************************)
PurchaseOk(p) ==
    pc[p] = "done" /\ req[p].method = "POST" /\ response[p].status = 200

C12_OkMeansDebitThenSuccessRow ==
    \A p \in Invocations :
       /\ PurchaseOk(p) =>
             /\ response[p] = Resp(200, None, "true")
             /\ packageData[p] = cable_packages[req[p].packageId].amount
             /\ calls[p] = << [op |-> "add_to_balance", user |-> req[p].auth,
                               amount |-> 0 - packageData[p], status |-> None,
                               reference |-> None, err |-> FALSE],
                              [op |-> "insert", user |-> req[p].auth,
                               amount |-> packageData[p], status |-> "success",
                               reference |-> req[p].reference, err |-> FALSE] >>
             /\ CopiesIn([user_id   |-> req[p].auth,
                          type      |-> "cable",
                          amount    |-> packageData[p],
                          status    |-> "success",
                          reference |-> req[p].reference,
                          recipient |-> req[p].smartCardNumber], transactions) >= 1
       /\ \A i \in 1..Len(calls[p]) :
             (calls[p][i].op = "insert" /\ calls[p][i].status = "success") =>
                /\ i = 2
                /\ calls[p][1].op = "add_to_balance"
                /\ ~calls[p][1].err

C12_Witness ==
    \E p, q \in Invocations :
       /\ PurchaseOk(p)
       /\ pc[q] = "done" /\ Failed(q, "add_to_balance")

(***************************************************************************)
(* C13: an invocation whose provider call failed issues no rpc; the only   *)
(* write call it makes is one insert of a 'failed' row with the package    *)
(* amount; it answers 400 with success false after that insert, with or    *)
(* without an error of the insert; and no step it takes changes a balance. *)
(***************************************************************************)
ProviderFailed(p) ==
    /\ profile[p] # <<>>
    /\ ~InsufficientBalance(profile[p][1], packageData[p])
    /\ success[p] = FALSE

C13_ProviderFailureKeepsBalance ==
    /\ [](\A p \in Invocations :
            ProviderFailed(p) =>
               /\ pc[p] \in {"insertFailed", "done"}
               /\ Issued(p, "add_to_balance") = <<>>
               /\ pc[p] = "insertFailed" => calls[p] = <<>>
               /\ pc[p] = "done" =>
                     /\ Len(calls[p]) = 1
                     /\ calls[p][1].op = "insert"
                     /\ calls[p][1].status = "failed"
                     /\ calls[p][1].amount = packageData[p]
                     /\ calls[p][1].amount = cable_packages[req[p].packageId].amount
                     /\ response[p] = Resp(400, "Service provider API failure", "false"))
    /\ [][\A p \in Invocations :
            (ProviderFailed(p) /\ pc'[p] # pc[p]) =>
               /\ profiles' = profiles
               /\ transactions' \in {transactions,
                                     transactions (+) SetToBag({
                                        [user_id   |-> req[p].auth,
                                         type      |-> "cable",
                                         amount    |-> packageData[p],
                                         status    |-> "failed",
                                         reference |-> req[p].reference,
                                         recipient |-> req[p].smartCardNumber]})}]_vars

C13_Witness ==
    \E p, q \in Invocations :
       /\ ProviderFailed(p) /\ pc[p] = "done" /\ calls[p][1].err
       /\ ProviderFailed(q) /\ pc[q] = "done" /\ ~calls[q][1].err
       /\ req[p].auth = req[q].auth
       /\ profiles[req[p].auth].balance = InitBalance

(***************************************************************************)
(* C14: when the invocations for one account never overlap and only the    *)
(* handler changes balances, no balance is ever below zero, and each       *)
(* invocation that debits has read the balance the account has at the      *)
(* moment of its rpc.                                                      *)
(***************************************************************************)
C14_BalanceNeverNegativeWhenSerial ==
    /\ \A u \in ProfileIds : profiles[u].balance >= 0
    /\ \A p \in Invocations :
          pc[p] = "debit" => profile[p] = <<profiles[authUser[p]].balance>>

C14_Witness ==
    \E p, q \in Invocations :
       /\ p < q /\ req[p].auth = req[q].auth
       /\ HasDebited(p)
       /\ profiles[req[p].auth].balance = InitBalance - packageData[p]
       /\ profiles[req[p].auth].balance < packageData[q]
       /\ pc[q] = "done" /\ response[q] = Insufficient

(***************************************************************************)
(* C15: an invocation that has answered 401, 404, 400 'Missing required    *)
(* parameters' or 400 'Insufficient balance', or that was an OPTIONS       *)
(* preflight, has made no write call; the step that gives such an answer   *)
(* leaves the balances and the transactions table as they were; and the    *)
(* tables change only in a step that is one of the write calls.            *)
(***************************************************************************)
EarlyAnswer(r, resp) ==
    \/ r.method = "OPTIONS"
    \/ resp.status \in {401, 404}
    \/ resp = Resp(400, "Missing required parameters", None)
    \/ resp = Insufficient

C15_EarlyAnswersWriteNothing ==
    /\ [](\A p \in Invocations :
            (pc[p] = "done" /\ EarlyAnswer(req[p], response[p])) => calls[p] = <<>>)
    /\ [][\A p \in Invocations :
            (pc[p] # "done" /\ pc'[p] = "done" /\ EarlyAnswer(req'[p], response'[p])) =>
               (profiles' = profiles /\ transactions' = transactions)]_vars
    /\ [][(profiles' # profiles \/ transactions' # transactions) =>
            \E p \in Invocations :
               /\ pc[p] \in {"debit", "insert", "insertFailed"}
               /\ Len(calls'[p]) = Len(calls[p]) + 1]_vars

C15_Witness ==
    \E p, q \in Invocations :
       /\ p < q /\ HasDebited(p) /\ HasInserted(p)
       /\ pc[q] = "done" /\ response[q] = Insufficient
       /\ req[q].auth = req[p].auth
       /\ profiles[req[p].auth].balance = InitBalance - packageData[p]
       /\ BagCardinality(transactions) = 1

(***************************************************************************)
(* C16: whenever isAuthenticated is true, the id of the mirrored user is   *)
(* the id of the user of the session that is held.                         *)
(***************************************************************************)
C16_UserIsSessionUser == isAuthenticated => user.id = session

(***************************************************************************)
(* C17: when every backend call resolves or rejects, each state with       *)
(* isLoading true (after the mount, after a login or register call) is     *)
(* followed by a state with isLoading false.                               *)
(***************************************************************************)
C17_LoadingEnds == isLoading ~> ~isLoading

C17_Witness ==
    /\ ~isLoading
    /\ session # None /\ user = NoUser
    /\ pending = EmptyBag

(***************************************************************************)
(* C18: a mounted ProtectedRoute has started its automatic refresh at most *)
(* once, exactly when refreshAttempted is set; the step that starts it     *)
(* ends in a state with isLoading false and isAuthenticated false and      *)
(* begins with no refresh attempted in this mount.                         *)
(***************************************************************************)
C18_AutoRefreshAtMostOncePerMount ==
    /\ [](/\ autoRefreshCalls <= 1
          /\ (autoRefreshCalls = 1) = refreshAttempted
          /\ ~routeMounted => autoRefreshCalls = 0)
    /\ [][autoRefreshCalls' > autoRefreshCalls =>
            /\ routeMounted'
            /\ ~isLoading'
            /\ ~IsAuthenticated(user', session')
            /\ ~refreshAttempted
            /\ autoRefreshCalls = 0]_vars

C18_Witness ==
    /\ routeMounted
    /\ autoRefreshCalls = 1
    /\ ~isLoading /\ ~isAuthenticated
    /\ session = None /\ user = NoUser
    /\ BagIn(Op("timer", "u1", None), pending)

(***************************************************************************)
(* C19: in no reachable auth state does the Login page navigate away while *)
(* a ProtectedRoute, with any allowedRoles, navigates to /login; Login     *)
(* sends role admin to /admin and every other user to /dashboard.          *)
(***************************************************************************)
C19_NoLoginRedirectCycle ==
    LET target == RedirectAway(isAuthenticated, user) IN
    /\ \A roles \in AllowedRolesProps :
          target # None =>
             RouteView(isLoading, isAuthenticated, user, roles) # RedirectPath
    /\ target = "/admin" => user.role = "admin"
    /\ target = "/dashboard" => (user # NoUser /\ user.role # "admin")
    /\ (routeMounted /\ RouteView(isLoading, isAuthenticated, user, allowedRoles)
                          = RedirectPath) => target = None

C19_Witness ==
    /\ routeMounted /\ allowedRoles = {"admin"}
    /\ ~isLoading
    /\ RedirectAway(isAuthenticated, user) = "/dashboard"
    /\ RouteView(isLoading, isAuthenticated, user, allowedRoles) = "/unauthorized"

====
